---- MODULE Spec2Model ----
(***************************************************************************)
(* Model of the staged pipeline engine of ex2/nexus_pipeline.py: stages,   *)
(* ProcessingPipeline.run_stages with its fallback recovery, the three     *)
(* adapters and NexusManager.execute_all / execute_chain.                  *)
(*                                                                         *)
(* Python values are tagged records, exceptions are outcomes carrying the  *)
(* name of the raised class.  Each call of the public API is one action;   *)
(* what the call did (stage invocations, process calls, printed results,   *)
(* return value or raised error) is recorded in the history variable       *)
(* `last`, and `returned` counts the process calls that returned normally. *)
(* The same calls are also followed step by step (variable `run`), which   *)
(* is where the states of a pipeline run and termination are examined.     *)
(* The data streams of ex1/data_stream.py are the variable `streams`.      *)
(***************************************************************************)
EXTENDS Integers, Sequences, FiniteSets, TLC

VARIABLES pipelines, last, returned, streams, run

vars == <<pipelines, last, returned, streams, run>>

\* ------------------------------------------------------------------ bounds
MaxStages == 3
MaxPipelines == 3
MaxCount == 2
MaxProcessed == 6

\* ------------------------------------------------------------------ values
StrV(s) == [t |-> "str", s |-> s]
IntV(n) == [t |-> "int", n |-> n]
NoneV == [t |-> "none"]

\* str(v), as the f-strings of the program apply it to a value
Str(v) ==
  CASE v.t = "str" -> v.s
    [] v.t = "int" -> ToString(v.n)
    [] OTHER -> "None"

\* the inputs handed to the public API
Data == {StrV("TEST DATA"), StrV("FAIL"), IntV(42)}

\* outcome of a call: a returned value or a raised exception class
Return(v) == [raised |-> "none", val |-> v]
Raise(e) == [raised |-> e, val |-> NoneV]
Raised(o) == o.raised # "none"

\* `except (TypeError, ValueError)`
Recoverable == {"TypeError", "ValueError"}

\* ------------------------------------------------------------------ strings
\* s.startswith(p)
StartsWith(s, p) == Len(s) >= Len(p) /\ SubSeq(s, 1, Len(p)) = p

\* p in s
Contains(s, p) ==
  \E k \in 1..(Len(s) - Len(p) + 1) : SubSeq(s, k, k + Len(p) - 1) = p

\* s.count(p), for a p that cannot overlap itself
Occurrences(s, p) ==
  Cardinality({k \in 1..(Len(s) - Len(p) + 1) :
                 SubSeq(s, k, k + Len(p) - 1) = p})

\* ------------------------------------------------------------------ stages
InputStage(data) == Return(data)

\* faulty variant: the sentinel is looked for inside the value (`in` for `==`)
TransformStage_Contains(data) ==
  IF data.t = "str" /\ Contains(data.s, "FAIL")
  THEN Raise("ValueError")
  ELSE Return(data)

TransformStage(data) ==
  IF data = StrV("FAIL") THEN Raise("ValueError") ELSE Return(data)

OutputStage(data) == Return(data)

\* any other class with a `process` method is a valid stage; the ones
\* modelled here always raise the exception class they are built with
StageErrors == {"TypeError", "RuntimeError"}
FaultyStage(err, data) == Raise(err)

StageClasses ==
  {[cls |-> "InputStage"], [cls |-> "TransformStage"], [cls |-> "OutputStage"]}
    \cup {[cls |-> "FaultyStage", err |-> e] : e \in StageErrors}

\* stage.process(data), dispatched on the class of the stage
StageProcess(stage, data) ==
  CASE stage.cls = "InputStage" -> InputStage(data)
    [] stage.cls = "TransformStage" -> TransformStage(data)
    [] stage.cls = "OutputStage" -> OutputStage(data)
    [] OTHER -> FaultyStage(stage.err, data)

\* ------------------------------------------------------------- the pipeline
\* ProcessingPipeline.__init__
NewPipeline(cls, pipeline_id) ==
  [cls |-> cls, pipeline_id |-> pipeline_id, stages |-> <<>>,
   processed_count |-> 0]

\* ProcessingPipeline.add_stage
\* faulty variant: adding a stage starts the count again
add_stage_Reset(self, stage) ==
  [self EXCEPT !.stages = Append(@, stage), !.processed_count = 0]

add_stage(self, stage) == [self EXCEPT !.stages = Append(@, stage)]

\* faulty variant: the fallback keeps the value and forgets the marker
Recovered_Unmarked(current_data) == StrV(Str(current_data))

\* faulty variant: a value that already carries the marker is not marked again
Recovered_Once(current_data) ==
  IF StartsWith(Str(current_data), "[RECOVERED]")
  THEN StrV(Str(current_data))
  ELSE StrV("[RECOVERED]" \o Str(current_data))

\* the fallback strategy of run_stages
Recovered(current_data) == StrV("[RECOVERED]" \o Str(current_data))

\* faulty variant: the loop has no except clause, every error ends the run
RECURSIVE RunStagesFrom_Abort(_, _, _, _)
RunStagesFrom_Abort(stages, i, current_data, trace) ==
  IF i > Len(stages)
  THEN [out |-> Return(current_data), trace |-> trace]
  ELSE LET r == StageProcess(stages[i], current_data)
           t == Append(trace, [stage |-> i, arg |-> current_data, out |-> r])
       IN IF ~Raised(r) THEN RunStagesFrom_Abort(stages, i + 1, r.val, t)
          ELSE [out |-> r, trace |-> t]

\* the loop of run_stages from stage i on; trace lists the stage invocations
RECURSIVE RunStagesFrom(_, _, _, _)
RunStagesFrom(stages, i, current_data, trace) ==
  IF i > Len(stages)
  THEN [out |-> Return(current_data), trace |-> trace]
  ELSE LET r == StageProcess(stages[i], current_data)
           t == Append(trace, [stage |-> i, arg |-> current_data, out |-> r])
       IN IF ~Raised(r) THEN RunStagesFrom(stages, i + 1, r.val, t)
          ELSE IF r.raised \in Recoverable
          THEN RunStagesFrom(stages, i + 1, Recovered(current_data), t)
          ELSE [out |-> r, trace |-> t]

run_stages(self, data) == RunStagesFrom(self.stages, 1, data, <<>>)

\* ------------------------------------------------------------- the adapters
\* faulty variant: the adapter forgets to count
AdapterProcess_NoCount(self, data, label) ==
  LET r == run_stages(self, data)
  IN IF Raised(r.out)
     THEN [self |-> self, out |-> r.out, trace |-> r.trace]
     ELSE [self |-> self,
           out |-> Return(StrV("Processed " \o label \o " data: "
                               \o Str(r.out.val))),
           trace |-> r.trace]

\* faulty variant: the adapter counts before it runs the stages
AdapterProcess_CountFirst(self, data, label) ==
  LET r == run_stages(self, data)
      counted == [self EXCEPT !.processed_count = @ + 1]
  IN IF Raised(r.out)
     THEN [self |-> counted, out |-> r.out, trace |-> r.trace]
     ELSE [self |-> counted,
           out |-> Return(StrV("Processed " \o label \o " data: "
                               \o Str(r.out.val))),
           trace |-> r.trace]

\* faulty variant: the adapter numbers its results with its count
AdapterProcess_Numbered(self, data, label) ==
  LET r == run_stages(self, data)
  IN IF Raised(r.out)
     THEN [self |-> self, out |-> r.out, trace |-> r.trace]
     ELSE [self |-> [self EXCEPT !.processed_count = @ + 1],
           out |-> Return(StrV("Processed " \o label \o " data: "
                               \o Str(r.out.val)
                               \o (IF self.processed_count = 0 THEN ""
                                   ELSE " #" \o ToString(self.processed_count)))),
           trace |-> r.trace]

\* faulty variant: the adapter returns the value of run_stages unformatted
AdapterProcess_Bare(self, data, label) ==
  LET r == run_stages(self, data)
  IN IF Raised(r.out)
     THEN [self |-> self, out |-> r.out, trace |-> r.trace]
     ELSE [self |-> [self EXCEPT !.processed_count = @ + 1],
           out |-> r.out, trace |-> r.trace]

\* the body the three adapters share: run the stages, count, wrap the result
AdapterProcess(self, data, label) ==
  LET r == run_stages(self, data)
  IN IF Raised(r.out)
     THEN [self |-> self, out |-> r.out, trace |-> r.trace]
     ELSE [self |-> [self EXCEPT !.processed_count = @ + 1],
           out |-> Return(StrV("Processed " \o label \o " data: "
                               \o Str(r.out.val))),
           trace |-> r.trace]

JSONAdapter_process(self, data) == AdapterProcess(self, data, "JSON")

CSVAdapter_process(self, data) == AdapterProcess(self, data, "CSV")

StreamAdapter_process(self, data) == AdapterProcess(self, data, "STREAM")

\* any other subclass supplies its own `process`; the one modelled here
\* rejects every input with the exception class it is built with
AdapterErrors == {"ValueError", "TypeError"}
FaultyAdapter_process(self, data) ==
  [self |-> self, out |-> Raise(self.err), trace |-> <<>>]

AdapterClasses ==
  {[cls |-> "JSONAdapter"], [cls |-> "CSVAdapter"], [cls |-> "StreamAdapter"]}

FaultyAdapterClasses == {[cls |-> "FaultyAdapter", err |-> e] : e \in AdapterErrors}

\* the construction of an adapter of class c
NewAdapter(c, pipeline_id) ==
  IF c.cls = "FaultyAdapter"
  THEN [cls |-> c.cls, err |-> c.err, pipeline_id |-> pipeline_id,
        stages |-> <<>>, processed_count |-> 0]
  ELSE NewPipeline(c.cls, pipeline_id)

\* pipeline.process(data), dispatched on the class of the adapter
process(self, data) ==
  CASE self.cls = "JSONAdapter" -> JSONAdapter_process(self, data)
    [] self.cls = "CSVAdapter" -> CSVAdapter_process(self, data)
    [] self.cls = "StreamAdapter" -> StreamAdapter_process(self, data)
    [] OTHER -> FaultyAdapter_process(self, data)

\* an adapter as main() builds it: constructed, then given its stages
Built(c, pipeline_id, s1, s2, s3) ==
  add_stage(add_stage(add_stage(NewAdapter(c, pipeline_id), s1), s2), s3)

\* the adapters handed to add_pipeline: a JSONAdapter and a CSVAdapter built
\* as in main(), a StreamAdapter whose middle stage raises RuntimeError, and
\* the adapters that reject every input
Catalogue(pipeline_id) ==
  {Built(c, pipeline_id, [cls |-> "InputStage"], [cls |-> "TransformStage"],
         [cls |-> "OutputStage"]) : c \in {[cls |-> "JSONAdapter"],
                                           [cls |-> "CSVAdapter"]}}
    \cup {Built([cls |-> "StreamAdapter"], pipeline_id, [cls |-> "InputStage"],
                [cls |-> "FaultyStage", err |-> "RuntimeError"],
                [cls |-> "OutputStage"])}
    \cup {NewAdapter(c, pipeline_id) : c \in FaultyAdapterClasses}

\* a process call as the history records it
Call(i, data, r) == [idx |-> i, arg |-> data, out |-> r.out, trace |-> r.trace]

\* -------------------------------------------------------------- the manager
\* faulty variant: execute_all hands each adapter the result of the one before
RECURSIVE ExecuteAllFrom_Chained(_, _, _, _, _)
ExecuteAllFrom_Chained(ps, i, data, calls, results) ==
  IF i > Len(ps)
  THEN [pipelines |-> ps, out |-> Return(NoneV), calls |-> calls,
        results |-> results]
  ELSE LET r == process(ps[i], data)
           ps2 == [ps EXCEPT ![i] = r.self]
           c2 == Append(calls, Call(i, data, r))
       IN IF ~Raised(r.out)
          THEN ExecuteAllFrom_Chained(ps2, i + 1, r.out.val, c2,
                                      Append(results, r.out.val))
          ELSE IF r.out.raised \in Recoverable
          THEN ExecuteAllFrom_Chained(ps2, i + 1, data, c2, results)
          ELSE [pipelines |-> ps2, out |-> r.out, calls |-> c2,
                results |-> results]

\* faulty variant: execute_all catches every error and goes on
RECURSIVE ExecuteAllFrom_CatchAll(_, _, _, _, _)
ExecuteAllFrom_CatchAll(ps, i, data, calls, results) ==
  IF i > Len(ps)
  THEN [pipelines |-> ps, out |-> Return(NoneV), calls |-> calls,
        results |-> results]
  ELSE LET r == process(ps[i], data)
           ps2 == [ps EXCEPT ![i] = r.self]
           c2 == Append(calls, Call(i, data, r))
       IN IF ~Raised(r.out)
          THEN ExecuteAllFrom_CatchAll(ps2, i + 1, data, c2,
                                       Append(results, r.out.val))
          ELSE ExecuteAllFrom_CatchAll(ps2, i + 1, data, c2, results)

\* faulty variant: execute_all has no except clause, every error ends the call
RECURSIVE ExecuteAllFrom_Unguarded(_, _, _, _, _)
ExecuteAllFrom_Unguarded(ps, i, data, calls, results) ==
  IF i > Len(ps)
  THEN [pipelines |-> ps, out |-> Return(NoneV), calls |-> calls,
        results |-> results]
  ELSE LET r == process(ps[i], data)
           ps2 == [ps EXCEPT ![i] = r.self]
           c2 == Append(calls, Call(i, data, r))
       IN IF ~Raised(r.out)
          THEN ExecuteAllFrom_Unguarded(ps2, i + 1, data, c2,
                                        Append(results, r.out.val))
          ELSE [pipelines |-> ps2, out |-> r.out, calls |-> c2,
                results |-> results]

\* the loop of execute_all from adapter i on; results are the printed
\* "Nexus Manager result" values
RECURSIVE ExecuteAllFrom(_, _, _, _, _)
ExecuteAllFrom(ps, i, data, calls, results) ==
  IF i > Len(ps)
  THEN [pipelines |-> ps, out |-> Return(NoneV), calls |-> calls,
        results |-> results]
  ELSE LET r == process(ps[i], data)
           ps2 == [ps EXCEPT ![i] = r.self]
           c2 == Append(calls, Call(i, data, r))
       IN IF ~Raised(r.out)
          THEN ExecuteAllFrom(ps2, i + 1, data, c2, Append(results, r.out.val))
          ELSE IF r.out.raised \in Recoverable
          THEN ExecuteAllFrom(ps2, i + 1, data, c2, results)
          ELSE [pipelines |-> ps2, out |-> r.out, calls |-> c2,
                results |-> results]

execute_all(ps, data) == ExecuteAllFrom(ps, 1, data, <<>>, <<>>)

\* faulty variant: execute_chain hands every adapter the original input
RECURSIVE ExecuteChainFrom_FanOut(_, _, _, _)
ExecuteChainFrom_FanOut(ps, i, current_data, calls) ==
  IF i > Len(ps)
  THEN [pipelines |-> ps, out |-> Return(current_data), calls |-> calls]
  ELSE LET r == process(ps[i], current_data)
           ps2 == [ps EXCEPT ![i] = r.self]
           c2 == Append(calls, Call(i, current_data, r))
       IN IF ~Raised(r.out)
          THEN ExecuteChainFrom_FanOut(ps2, i + 1, current_data, c2)
          ELSE [pipelines |-> ps2, out |-> r.out, calls |-> c2]

\* faulty variant: execute_chain catches TypeError and ValueError as execute_all does
RECURSIVE ExecuteChainFrom_Guarded(_, _, _, _)
ExecuteChainFrom_Guarded(ps, i, current_data, calls) ==
  IF i > Len(ps)
  THEN [pipelines |-> ps, out |-> Return(current_data), calls |-> calls]
  ELSE LET r == process(ps[i], current_data)
           ps2 == [ps EXCEPT ![i] = r.self]
           c2 == Append(calls, Call(i, current_data, r))
       IN IF ~Raised(r.out)
          THEN ExecuteChainFrom_Guarded(ps2, i + 1, r.out.val, c2)
          ELSE IF r.out.raised \in Recoverable
          THEN ExecuteChainFrom_Guarded(ps2, i + 1, current_data, c2)
          ELSE [pipelines |-> ps2, out |-> r.out, calls |-> c2]

\* the loop of execute_chain from adapter i on
RECURSIVE ExecuteChainFrom(_, _, _, _)
ExecuteChainFrom(ps, i, current_data, calls) ==
  IF i > Len(ps)
  THEN [pipelines |-> ps, out |-> Return(current_data), calls |-> calls]
  ELSE LET r == process(ps[i], current_data)
           ps2 == [ps EXCEPT ![i] = r.self]
           c2 == Append(calls, Call(i, current_data, r))
       IN IF ~Raised(r.out)
          THEN ExecuteChainFrom(ps2, i + 1, r.out.val, c2)
          ELSE [pipelines |-> ps2, out |-> r.out, calls |-> c2]

execute_chain(ps, data) == ExecuteChainFrom(ps, 1, data, <<>>)

\* ------------------------------------------------------------------ history
Counts(ps) == [i \in 1..Len(ps) |-> ps[i].processed_count]

\* what the last call of the API was and did
Record(op, idx, arg, out, calls, trace, results) ==
  [op |-> op, idx |-> idx, arg |-> arg, out |-> out, calls |-> calls,
   trace |-> trace, results |-> results, before |-> Counts(pipelines)]

\* the process calls of a log that returned normally, added per adapter
Tally(n, calls) ==
  [i \in 1..Len(n) |->
     n[i] + Cardinality({k \in 1..Len(calls) :
                           calls[k].idx = i /\ ~Raised(calls[k].out)})]

CanCount(i) == pipelines[i].processed_count < MaxCount

\* ------------------------------------------------------------------ actions
\* faulty variant: the new pipeline is put in front
add_pipeline_Front(ps, pipeline) == <<pipeline>> \o ps

\* NexusManager.add_pipeline
add_pipeline(ps, pipeline) == Append(ps, pipeline)

\* manager.add_pipeline(pipeline)
AddPipeline ==
  /\ Len(pipelines) < MaxPipelines
  /\ \E p \in Catalogue("P" \o ToString(Len(pipelines) + 1)) :
       pipelines' = add_pipeline(pipelines, p)
  /\ returned' = Append(returned, 0)
  /\ UNCHANGED <<streams, run>>
  /\ last' = Record("add_pipeline", Len(pipelines) + 1, NoneV, Return(NoneV),
                    <<>>, <<>>, <<>>)

\* pipelines[i].add_stage(stage)
AddStage ==
  \E i \in 1..Len(pipelines), stage \in StageClasses :
    /\ Len(pipelines[i].stages) < MaxStages
    /\ pipelines' = [pipelines EXCEPT ![i] = add_stage(@, stage)]
    /\ last' = Record("add_stage", i, NoneV, Return(NoneV), <<>>, <<>>, <<>>)
    /\ UNCHANGED <<returned, streams, run>>

\* pipelines[i].run_stages(data), called on its own
RunStages ==
  \E i \in 1..Len(pipelines), data \in Data :
    \E r \in {run_stages(pipelines[i], data)} :
      /\ last' = Record("run_stages", i, data, r.out, <<>>, r.trace, <<>>)
      /\ UNCHANGED <<pipelines, returned, streams, run>>

\* pipelines[i].process(data), called on its own
Process ==
  \E i \in 1..Len(pipelines), data \in Data :
    /\ CanCount(i)
    /\ \E r \in {process(pipelines[i], data)} :
         /\ pipelines' = [pipelines EXCEPT ![i] = r.self]
         /\ last' = Record("process", i, data, r.out, <<Call(i, data, r)>>,
                           r.trace, <<>>)
         /\ returned' = Tally(returned, <<Call(i, data, r)>>)
         /\ UNCHANGED <<streams, run>>

\* manager.execute_all(data)
ExecuteAll ==
  /\ \A i \in 1..Len(pipelines) : CanCount(i)
  /\ \E data \in Data :
       \E r \in {execute_all(pipelines, data)} :
         /\ pipelines' = r.pipelines
         /\ last' = Record("execute_all", 0, data, r.out, r.calls, <<>>,
                           r.results)
         /\ returned' = Tally(returned, r.calls)
         /\ UNCHANGED <<streams, run>>

\* manager.execute_chain(data)
ExecuteChain ==
  /\ \A i \in 1..Len(pipelines) : CanCount(i)
  /\ \E data \in Data :
       \E r \in {execute_chain(pipelines, data)} :
         /\ pipelines' = r.pipelines
         /\ last' = Record("execute_chain", 0, data, r.out, r.calls, <<>>,
                           <<>>)
         /\ returned' = Tally(returned, r.calls)
         /\ UNCHANGED <<streams, run>>

NoCall == [op |-> "init", idx |-> 0, arg |-> NoneV, out |-> Return(NoneV),
           calls |-> <<>>, trace |-> <<>>, results |-> <<>>, before |-> <<>>]

\* no call is in progress
NoRun ==
  [op |-> "none", arg |-> NoneV, top |-> "idle", idx |-> 0, state |-> "Idle",
   stage |-> 0, data |-> NoneV, current |-> NoneV, err |-> "none",
   invoked |-> 0, visited |-> <<>>, result |-> NoneV, out |-> Return(NoneV)]

\* ----------------------------------------------------------- specifications
\* a manager: adapters are registered and executed
Init ==
  /\ pipelines = <<>>
  /\ last = NoCall
  /\ returned = <<>>
  /\ streams = <<>>
  /\ run = NoRun

Next ==
  \/ AddPipeline
  \/ Process
  \/ ExecuteAll
  \/ ExecuteChain

Spec == Init /\ [][Next]_vars

\* one adapter of the program on its own: stages are added, it is run
InitPipe ==
  /\ \E c \in AdapterClasses : pipelines = <<NewAdapter(c, "P1")>>
  /\ last = [NoCall EXCEPT !.before = <<0>>]
  /\ returned = <<0>>
  /\ streams = <<>>
  /\ run = NoRun

NextPipe ==
  \/ AddStage
  \/ RunStages
  \/ Process

SpecPipe == InitPipe /\ [][NextPipe]_vars

\* both together: either a pipeline that no manager holds, which is built and
\* run, or a manager with the pipelines registered in it
Loose == Len(pipelines) = 1 /\ pipelines[1].pipeline_id = "P0"

InitLoose ==
  /\ \E c \in AdapterClasses : pipelines = <<NewAdapter(c, "P0")>>
  /\ last = [NoCall EXCEPT !.before = <<0>>]
  /\ returned = <<0>>
  /\ streams = <<>>
  /\ run = NoRun

InitFrame == Init \/ InitLoose

NextFrame ==
  \/ Loose /\ AddStage
  \/ Loose /\ RunStages
  \/ Process
  \/ ~Loose /\ AddPipeline
  \/ ~Loose /\ ExecuteAll
  \/ ~Loose /\ ExecuteChain

SpecFrame == InitFrame /\ [][NextFrame]_vars

\* the manager of main(): JSON_01, CSV_01 and STREAM_01, each with an input,
\* a transform and an output stage, registered in that order
MainPipeline(c, pipeline_id) ==
  Built([cls |-> c], pipeline_id, [cls |-> "InputStage"],
        [cls |-> "TransformStage"], [cls |-> "OutputStage"])

MainPipelines ==
  add_pipeline(add_pipeline(add_pipeline(<<>>,
    MainPipeline("JSONAdapter", "JSON_01")),
    MainPipeline("CSVAdapter", "CSV_01")),
    MainPipeline("StreamAdapter", "STREAM_01"))

\* main() calls the manager three times
MainCalls == 3

InitMain ==
  /\ pipelines = MainPipelines
  /\ last = [NoCall EXCEPT !.before = Counts(MainPipelines)]
  /\ returned = Counts(MainPipelines)
  /\ streams = <<>>
  /\ run = NoRun

\* manager.execute_all(data), as main calls it first and last
MainExecuteAll ==
  /\ \A i \in 1..Len(pipelines) : pipelines[i].processed_count < MainCalls
  /\ \E data \in Data :
       \E r \in {execute_all(pipelines, data)} :
         /\ pipelines' = r.pipelines
         /\ last' = Record("execute_all", 0, data, r.out, r.calls, <<>>,
                           r.results)
         /\ returned' = Tally(returned, r.calls)
         /\ UNCHANGED <<streams, run>>

\* manager.execute_chain(data), as main calls it in between
MainExecuteChain ==
  /\ \A i \in 1..Len(pipelines) : pipelines[i].processed_count < MainCalls
  /\ \E data \in Data :
       \E r \in {execute_chain(pipelines, data)} :
         /\ pipelines' = r.pipelines
         /\ last' = Record("execute_chain", 0, data, r.out, r.calls, <<>>,
                           <<>>)
         /\ returned' = Tally(returned, r.calls)
         /\ UNCHANGED <<streams, run>>

\* one of the three pipelines run on its own
MainProcess ==
  \E i \in 1..Len(pipelines), data \in Data :
    /\ pipelines[i].processed_count < MainCalls
    /\ \E r \in {process(pipelines[i], data)} :
         /\ pipelines' = [pipelines EXCEPT ![i] = r.self]
         /\ last' = Record("process", i, data, r.out, <<Call(i, data, r)>>,
                           r.trace, <<>>)
         /\ returned' = Tally(returned, <<Call(i, data, r)>>)
         /\ UNCHANGED <<streams, run>>

NextMain ==
  \/ MainExecuteAll
  \/ MainExecuteChain
  \/ MainProcess

SpecMain == InitMain /\ [][NextMain]_vars

\* ------------------------------------------------------- shared vocabulary
ITO == <<[cls |-> "InputStage"], [cls |-> "TransformStage"],
         [cls |-> "OutputStage"]>>

\* the format label of the three adapter classes
Label(cls) ==
  CASE cls = "JSONAdapter" -> "JSON"
    [] cls = "CSVAdapter" -> "CSV"
    [] cls = "StreamAdapter" -> "STREAM"

Formatted(cls, s) == Return(StrV("Processed " \o Label(cls) \o " data: " \o s))

\* the last call ran the stages of the one pipeline of SpecPipe
RanStages == last.op \in {"run_stages", "process"}

\* ------------------------------------------------------------------ C1
\* C1: on stages [InputStage, TransformStage, OutputStage] and an input x
\* other than "FAIL", no stage raises, run_stages(x) returns x, process(x)
\* returns "Processed <FORMAT> data: x" and processed_count grows by 1.
C1_PassThrough ==
  (RanStages /\ pipelines[1].stages = ITO /\ last.arg # StrV("FAIL")) =>
    /\ Len(last.trace) = 3
    /\ \A k \in 1..Len(last.trace) :
         ~Raised(last.trace[k].out) /\ last.trace[k].arg = last.arg
    /\ last.op = "run_stages" =>
         /\ last.out = Return(last.arg)
         /\ pipelines[1].processed_count = last.before[1]
    /\ last.op = "process" =>
         /\ last.out = Formatted(pipelines[1].cls, Str(last.arg))
         /\ last.arg = StrV("TEST DATA") /\ pipelines[1].cls = "JSONAdapter" =>
              last.out.val.s = "Processed JSON data: TEST DATA"
         /\ last.arg = IntV(42) /\ pipelines[1].cls = "StreamAdapter" =>
              last.out.val.s = "Processed STREAM data: 42"
         /\ pipelines[1].processed_count = last.before[1] + 1

C1_Witness ==
  /\ last.op = "process"
  /\ pipelines[1].stages = ITO
  /\ pipelines[1].cls = "JSONAdapter"
  /\ last.arg = StrV("TEST DATA")
  /\ last.out = Return(StrV("Processed JSON data: TEST DATA"))
  /\ last.before = <<0>>
  /\ pipelines[1].processed_count = 1

\* ------------------------------------------------------------------ C2
\* C2: on stages [InputStage, TransformStage, OutputStage] and the input
\* "FAIL", TransformStage raises ValueError, OutputStage is still invoked,
\* with "[RECOVERED]FAIL", run_stages returns "[RECOVERED]FAIL", process
\* returns "Processed <FORMAT> data: [RECOVERED]FAIL" and processed_count
\* grows by 1.
C2_SentinelRecovered ==
  (RanStages /\ pipelines[1].stages = ITO /\ last.arg = StrV("FAIL")) =>
    /\ Len(last.trace) = 3
    /\ last.trace[1].out = Return(StrV("FAIL"))
    /\ last.trace[2].arg = StrV("FAIL")
    /\ last.trace[2].out = Raise("ValueError")
    /\ last.trace[3].stage = 3
    /\ last.trace[3].arg = StrV("[RECOVERED]FAIL")
    /\ last.trace[3].out = Return(StrV("[RECOVERED]FAIL"))
    /\ last.op = "run_stages" => last.out = Return(StrV("[RECOVERED]FAIL"))
    /\ last.op = "process" =>
         /\ last.out = Formatted(pipelines[1].cls, "[RECOVERED]FAIL")
         /\ pipelines[1].cls = "JSONAdapter" =>
              last.out.val.s = "Processed JSON data: [RECOVERED]FAIL"
         /\ pipelines[1].processed_count = last.before[1] + 1

C2_Witness ==
  /\ last.op = "process"
  /\ pipelines[1].stages = ITO
  /\ pipelines[1].cls = "JSONAdapter"
  /\ last.arg = StrV("FAIL")
  /\ last.trace[2].out = Raise("ValueError")
  /\ last.out = Return(StrV("Processed JSON data: [RECOVERED]FAIL"))
  /\ pipelines[1].processed_count = last.before[1] + 1

\* ------------------------------------------------------------------ C3
\* C3: whatever calls were made, every processed_count is >= 0 and equals
\* the number of process calls on that adapter that returned normally, and
\* no step makes a processed_count smaller.
C3_CountsReturns ==
  \A i \in 1..Len(pipelines) :
    /\ pipelines[i].processed_count >= 0
    /\ pipelines[i].processed_count = returned[i]

C3_NeverDecreases ==
  /\ Len(pipelines') >= Len(pipelines)
  /\ \A i \in 1..Len(pipelines) :
       pipelines'[i].processed_count >= pipelines[i].processed_count

C3_Counter == [](C3_CountsReturns) /\ [][C3_NeverDecreases]_vars

C3_Witness ==
  \E i, j \in 1..Len(pipelines) :
    /\ pipelines[i].processed_count = 2
    /\ returned[i] = 2
    /\ pipelines[j].processed_count = 0
    /\ \E k \in 1..Len(last.calls) :
         last.calls[k].idx = j /\ Raised(last.calls[k].out)
    /\ \E k \in 1..Len(last.calls) :
         last.calls[k].idx = i /\ last.calls[k].out.raised = "none"
                               /\ Len(last.calls[k].trace) = 3
                               /\ Raised(last.calls[k].trace[2].out)

\* ------------------------------------------------------------------ C4
\* C4: an execute_chain(x) out of which no error comes calls every adapter
\* once in insertion order, the first with x and each next one with the value
\* the one before returned, and returns what the last adapter returned; over
\* two adapters A, B that is B.process(A.process(x)).
C4_ChainComposition ==
  (last.op = "execute_chain" /\ ~Raised(last.out)) =>
    LET n == Len(pipelines)
        calls == last.calls
    IN /\ Len(calls) = n
       /\ \A k \in 1..n :
            /\ calls[k].idx = k
            /\ ~Raised(calls[k].out)
            /\ calls[k].arg = IF k = 1 THEN last.arg ELSE calls[k - 1].out.val
            /\ calls[k].out = process(pipelines[k], calls[k].arg).out
       /\ last.out = Return(IF n = 0 THEN last.arg ELSE calls[n].out.val)
       /\ n = 2 =>
            last.out = process(pipelines[2],
                               process(pipelines[1], last.arg).out.val).out

C4_Witness ==
  /\ last.op = "execute_chain"
  /\ Len(pipelines) = 3
  /\ last.arg = StrV("TEST DATA")
  /\ Len(last.calls) = 3
  /\ last.calls[2].arg = StrV("Processed JSON data: TEST DATA")
  /\ last.out = Return(StrV("Processed JSON data: Processed CSV data: "
                            \o "Processed JSON data: TEST DATA"))

\* ------------------------------------------------------------------ C5
\* C5: an execute_all(x) out of which no error comes calls process on every
\* adapter once, in insertion order, each time with x itself; every adapter
\* of the three adapter classes returns its own result for x and its
\* processed_count grows by exactly 1.
C5_FanOut ==
  (last.op = "execute_all" /\ ~Raised(last.out)) =>
    LET n == Len(pipelines)
        calls == last.calls
    IN /\ Len(calls) = n
       /\ \A k \in 1..n :
            /\ calls[k].idx = k
            /\ calls[k].arg = last.arg
            /\ calls[k].out = process(pipelines[k], last.arg).out
            /\ pipelines[k].cls # "FaultyAdapter" =>
                 /\ ~Raised(calls[k].out)
                 /\ pipelines[k].processed_count = last.before[k] + 1
            /\ Raised(calls[k].out) =>
                 pipelines[k].processed_count = last.before[k]

C5_Witness ==
  /\ last.op = "execute_all"
  /\ Len(pipelines) = 3
  /\ \A k \in 1..3 : pipelines[k].cls # "FaultyAdapter"
  /\ last.arg = StrV("FAIL")
  /\ Len(last.calls) = 3
  /\ \A k \in 1..3 : last.calls[k].arg = StrV("FAIL")
  /\ Len(last.results) = 3
  /\ Counts(pipelines) = <<2, 1, 1>>
  /\ last.before = <<1, 0, 0>>

\* ------------------------------------------------------------------ C6
\* C6: when the process call of adapter k raises an error that is neither
\* TypeError nor ValueError during execute_all, execute_all raises that
\* error, no adapter after k is called and their counts are unchanged, the
\* count of adapter k is unchanged, and each adapter before k that returned
\* keeps its count raised by 1.
C6_FatalStopsFanOut ==
  \A k \in 1..Len(last.calls) :
    (/\ last.op = "execute_all"
     /\ Raised(last.calls[k].out)
     /\ last.calls[k].out.raised \notin Recoverable) =>
      /\ last.out = last.calls[k].out
      /\ Len(last.calls) = k
      /\ \A m \in 1..k : last.calls[m].idx = m
      /\ \A j \in (k + 1)..Len(pipelines) :
           pipelines[j].processed_count = last.before[j]
      /\ pipelines[k].processed_count = last.before[k]
      /\ \A j \in 1..(k - 1) :
           pipelines[j].processed_count =
             last.before[j] + (IF Raised(last.calls[j].out) THEN 0 ELSE 1)

C6_Witness ==
  /\ last.op = "execute_all"
  /\ Len(pipelines) = 3
  /\ Len(last.calls) = 2
  /\ last.calls[2].out = Raise("RuntimeError")
  /\ last.out = Raise("RuntimeError")
  /\ pipelines[1].processed_count = last.before[1] + 1
  /\ pipelines[2].processed_count = last.before[2]
  /\ pipelines[3].cls = "JSONAdapter"
  /\ pipelines[3].processed_count = last.before[3]

\* ------------------------------------------------------------------ C7
\* C7: in run_stages every stage is invoked once, in order; when stage k
\* raises TypeError or ValueError the current value becomes "[RECOVERED]"
\* followed by the string form of the value passed into stage k, stage k+1
\* is invoked with that value, and if stage k is the last one that value is
\* what run_stages returns (and what process wraps).
Marked(v) == StrV("[RECOVERED]" \o Str(v))

C7_Recovery ==
  RanStages =>
    LET trace == last.trace
        n == Len(pipelines[1].stages)
    IN \A k \in 1..Len(trace) :
         /\ trace[k].stage = k
         /\ trace[k].out.raised \in Recoverable =>
              /\ k < n =>
                   /\ Len(trace) > k
                   /\ trace[k + 1].arg = Marked(trace[k].arg)
                   /\ trace[k].arg = IntV(42) =>
                        trace[k + 1].arg.s = "[RECOVERED]42"
                   /\ trace[k].arg = StrV("FAIL") =>
                        trace[k + 1].arg.s = "[RECOVERED]FAIL"
              /\ (k = n /\ last.op = "run_stages") =>
                   last.out = Return(Marked(trace[k].arg))
              /\ (k = n /\ last.op = "process") =>
                   last.out = Formatted(pipelines[1].cls,
                                        "[RECOVERED]" \o Str(trace[k].arg))

C7_Witness ==
  /\ last.op = "run_stages"
  /\ pipelines[1].stages = <<[cls |-> "TransformStage"], [cls |-> "OutputStage"],
                             [cls |-> "FaultyStage", err |-> "TypeError"]>>
  /\ last.arg = StrV("FAIL")
  /\ Len(last.trace) = 3
  /\ last.trace[1].out = Raise("ValueError")
  /\ last.trace[2].arg = StrV("[RECOVERED]FAIL")
  /\ last.trace[3].out = Raise("TypeError")
  /\ last.out = Return(StrV("[RECOVERED][RECOVERED]FAIL"))

\* ------------------------------------------------------------------ C8
\* C8: when a stage raises an error that is neither TypeError nor ValueError,
\* no further stage runs, process raises that error instead of returning a
\* result, and processed_count is left as it was.
C8_FatalEscapes ==
  \A k \in 1..Len(last.trace) :
    (/\ last.op = "process"
     /\ Raised(last.trace[k].out)
     /\ last.trace[k].out.raised \notin Recoverable) =>
      /\ k = Len(last.trace)
      /\ last.out = last.trace[k].out
      /\ last.out.val = NoneV
      /\ pipelines[1].processed_count = last.before[1]

C8_Witness ==
  /\ last.op = "process"
  /\ Len(last.trace) = 2
  /\ Len(pipelines[1].stages) = 3
  /\ last.trace[1].out = Raise("ValueError")
  /\ last.trace[2].out = Raise("RuntimeError")
  /\ last.out = Raise("RuntimeError")
  /\ last.before = <<1>>
  /\ pipelines[1].processed_count = 1

\* ------------------------------------------------------------------ C9
\* C9: when the process call of adapter k raises any error during
\* execute_chain, execute_chain raises that error and returns nothing, no
\* adapter after k is called and their counts are unchanged, the count of
\* adapter k is unchanged, and every adapter before k keeps its count raised
\* by 1.
C9_ChainGuardsNothing ==
  \A k \in 1..Len(last.calls) :
    (last.op = "execute_chain" /\ Raised(last.calls[k].out)) =>
      /\ last.out = last.calls[k].out
      /\ last.out.val = NoneV
      /\ Len(last.calls) = k
      /\ \A m \in 1..k : last.calls[m].idx = m
      /\ \A j \in (k + 1)..Len(pipelines) :
           pipelines[j].processed_count = last.before[j]
      /\ pipelines[k].processed_count = last.before[k]
      /\ \A j \in 1..(k - 1) :
           /\ ~Raised(last.calls[j].out)
           /\ pipelines[j].processed_count = last.before[j] + 1

C9_Witness ==
  /\ last.op = "execute_chain"
  /\ Len(pipelines) = 3
  /\ Len(last.calls) = 2
  /\ last.calls[2].out = Raise("ValueError")
  /\ last.out = Raise("ValueError")
  /\ pipelines[1].processed_count = last.before[1] + 1
  /\ pipelines[3].cls = "CSVAdapter"
  /\ pipelines[3].processed_count = last.before[3]

\* ------------------------------------------------------------------ C10
\* the values of the process calls of a log that returned, in order
ReturnedValues(calls) ==
  LET done == SelectSeq(calls, LAMBDA c : ~Raised(c.out))
  IN [m \in 1..Len(done) |-> done[m].out.val]

\* C10 as stated: when the process call of adapter k raises TypeError or
\* ValueError during execute_all, every adapter after k is still called,
\* with the original input.
C10_AllRemainingInvoked ==
  \A k \in 1..Len(last.calls) :
    (last.op = "execute_all" /\ last.calls[k].out.raised \in Recoverable) =>
      /\ Len(last.calls) = Len(pipelines)
      /\ \A j \in (k + 1)..Len(pipelines) :
           last.calls[j].idx = j /\ last.calls[j].arg = last.arg

\* C10, amended: when the process call of adapter k raises TypeError or
\* ValueError during execute_all, no result is printed for adapter k, the
\* next adapter is called with the original input, and so is each adapter
\* after it up to the first whose process raises an error of another class;
\* when no call raises such an error every adapter is called and execute_all
\* returns.
C10_RecoverableSkipped ==
  \A k \in 1..Len(last.calls) :
    (last.op = "execute_all" /\ last.calls[k].out.raised \in Recoverable) =>
      /\ last.results = ReturnedValues(last.calls)
      /\ Len(last.results) < Len(last.calls)
      /\ k < Len(pipelines) => Len(last.calls) > k
      /\ \A j \in (k + 1)..Len(last.calls) :
           /\ last.calls[j].idx = j
           /\ last.calls[j].arg = last.arg
           /\ j < Len(last.calls) =>
                last.calls[j].out.raised \in Recoverable \cup {"none"}
      /\ (\A j \in 1..Len(last.calls) :
            last.calls[j].out.raised \in Recoverable \cup {"none"}) =>
           /\ Len(last.calls) = Len(pipelines)
           /\ ~Raised(last.out)

C10_Witness ==
  /\ last.op = "execute_all"
  /\ Len(pipelines) = 3
  /\ Len(last.calls) = 3
  /\ last.arg = StrV("TEST DATA")
  /\ last.calls[1].out = Raise("TypeError")
  /\ last.calls[2].out = Return(StrV("Processed CSV data: TEST DATA"))
  /\ last.calls[3].out = Raise("ValueError")
  /\ last.results = <<StrV("Processed CSV data: TEST DATA")>>
  /\ last.out = Return(NoneV)

\* ------------------------------------------------------------------ C11
\* the value run_stages holds after the k-th stage invocation of the last
\* call: what the next stage was invoked with or, after the last stage, what
\* run_stages returned
Unwrapped(out) ==
  SubSeq(out.val.s, Len(Formatted(pipelines[1].cls, "").val.s) + 1,
         Len(out.val.s))

ValueAfter(k) ==
  IF k < Len(last.trace) THEN last.trace[k + 1].arg
  ELSE IF last.op = "run_stages" THEN last.out.val
  ELSE StrV(Unwrapped(last.out))

\* C11: any number of stages recover within one run, each wrapping the value
\* present at that point: when stages k and k+1 both raise TypeError or
\* ValueError, the value after stage k+1 is "[RECOVERED][RECOVERED]" followed
\* by the string form of the value that entered stage k.
C11_NestedRecovery ==
  RanStages =>
    \A k \in 1..(Len(last.trace) - 1) :
      (/\ last.trace[k].out.raised \in Recoverable
       /\ last.trace[k + 1].out.raised \in Recoverable) =>
        /\ last.trace[k + 1].arg = Marked(last.trace[k].arg)
        /\ ValueAfter(k + 1) =
             StrV("[RECOVERED][RECOVERED]" \o Str(last.trace[k].arg))
        /\ last.trace[k].arg = IntV(42) =>
             ValueAfter(k + 1).s = "[RECOVERED][RECOVERED]42"

C11_Witness ==
  /\ last.op = "process"
  /\ pipelines[1].cls = "CSVAdapter"
  /\ pipelines[1].stages = <<[cls |-> "FaultyStage", err |-> "TypeError"],
                             [cls |-> "FaultyStage", err |-> "TypeError"]>>
  /\ last.arg = IntV(42)
  /\ Len(last.trace) = 2
  /\ last.trace[1].out = Raise("TypeError")
  /\ last.trace[2].out = Raise("TypeError")
  /\ last.trace[2].arg = StrV("[RECOVERED]42")
  /\ last.out = Return(StrV("Processed CSV data: [RECOVERED][RECOVERED]42"))

\* ------------------------------------------------------------------ C17
\* the stage classes the source defines
SourceStages ==
  {[cls |-> "InputStage"], [cls |-> "TransformStage"], [cls |-> "OutputStage"]}

SourceStagesOnly(p) == \A k \in 1..Len(p.stages) : p.stages[k] \in SourceStages

\* the stage invocations of the last call that were recovered from
Recoveries(trace) ==
  {k \in 1..Len(trace) : trace[k].out.raised \in Recoverable}

\* C17: with stages built only from InputStage, TransformStage and
\* OutputStage, one run_stages call recovers at most once whatever the number
\* of TransformStages: from the first recovery on the value starts with
\* "[RECOVERED]" and is never "FAIL" again, a doubly marked value does not
\* occur, and the result for input x is x or "[RECOVERED]FAIL".
C17_AtMostOneRecovery ==
  (RanStages /\ SourceStagesOnly(pipelines[1])) =>
    /\ Cardinality(Recoveries(last.trace)) <= 1
    /\ \A k \in Recoveries(last.trace) :
         /\ last.trace[k].arg = StrV("FAIL")
         /\ \A j \in (k + 1)..Len(last.trace) :
              /\ StartsWith(Str(last.trace[j].arg), "[RECOVERED]")
              /\ last.trace[j].arg # StrV("FAIL")
              /\ last.trace[j].out = Return(StrV("[RECOVERED]FAIL"))
    /\ \A k \in 1..Len(last.trace) :
         /\ ~StartsWith(Str(last.trace[k].arg), "[RECOVERED][RECOVERED]")
         /\ ~StartsWith(Str(ValueAfter(k)), "[RECOVERED][RECOVERED]")
    /\ ~Raised(last.out)
    /\ last.op = "run_stages" =>
         last.out.val \in {last.arg, StrV("[RECOVERED]FAIL")}
    /\ Str(ValueAfter(Len(last.trace))) \in {Str(last.arg), "[RECOVERED]FAIL"}
    /\ ValueAfter(Len(last.trace)) = StrV("[RECOVERED]FAIL")
         <=> (/\ last.arg = StrV("FAIL")
              /\ \E k \in 1..Len(pipelines[1].stages) :
                   pipelines[1].stages[k].cls = "TransformStage")

C17_Witness ==
  /\ last.op = "run_stages"
  /\ \A k \in 1..MaxStages :
       /\ k \in DOMAIN pipelines[1].stages
       /\ pipelines[1].stages[k] = [cls |-> "TransformStage"]
  /\ last.arg = StrV("FAIL")
  /\ Recoveries(last.trace) = {1}
  /\ last.trace[2].arg = StrV("[RECOVERED]FAIL")
  /\ last.out = Return(StrV("[RECOVERED]FAIL"))

\* ------------------------------------------------------------------ C19
\* a copy of the adapter p (same class, id and stages) whose counter is n
Copy(p, n) == [p EXCEPT !.processed_count = n]

\* C19: what process returns or raises depends on the input, the format label
\* and the stages only, never on processed_count or on earlier calls: copies
\* of the adapter with any other counter value give the same outcome for
\* every input, and the outcome of the call just made is the one a fresh copy
\* that was never called gives for the same input.
C19_HistoryIndependent ==
  /\ \A data \in Data : \A n \in 0..MaxCount :
       /\ process(Copy(pipelines[1], n), data).out =
            process(pipelines[1], data).out
       /\ process(Copy(pipelines[1], n), data).trace =
            process(pipelines[1], data).trace
  /\ last.op = "process" =>
       /\ last.out = process(Copy(pipelines[1], 0), last.arg).out
       /\ last.trace = process(Copy(pipelines[1], 0), last.arg).trace

C19_Witness ==
  /\ last.op = "process"
  /\ last.before = <<1>>
  /\ returned = <<2>>
  /\ streams = <<>>
  /\ run = NoRun
  /\ pipelines[1].processed_count = 2
  /\ pipelines[1].cls = "StreamAdapter"
  /\ pipelines[1].stages = <<[cls |-> "TransformStage"]>>
  /\ last.arg = StrV("FAIL")
  /\ last.out = Return(StrV("Processed STREAM data: [RECOVERED]FAIL"))
  /\ last.out = process(Copy(pipelines[1], 0), last.arg).out

\* ------------------------------------------------------------------ C18
\* an adapter as main builds them: a source class over the three source stages
Reference(p) == [cls |-> p.cls] \in AdapterClasses /\ p.stages = ITO

\* the last call was execute_chain over reference adapters only
ReferenceChain ==
  /\ last.op = "execute_chain"
  /\ \A i \in 1..Len(pipelines) : Reference(pipelines[i])

\* s.endswith(p)
EndsWith(s, p) ==
  Len(s) >= Len(p) /\ SubSeq(s, Len(s) - Len(p) + 1, Len(s)) = p

\* C18: in execute_chain over reference adapters only the first adapter can
\* recover: every adapter from the second on receives a value that begins
\* with "Processed " and none of its stages raises; execute_chain("FAIL")
\* returns normally a value with exactly one "[RECOVERED]" marker, innermost,
\* and every counter has grown by one.
C18_OnlyFirstRecovers ==
  ReferenceChain =>
    /\ ~Raised(last.out)
    /\ Len(last.calls) = Len(pipelines)
    /\ \A k \in 2..Len(last.calls) :
         /\ StartsWith(Str(last.calls[k].arg), "Processed ")
         /\ Recoveries(last.calls[k].trace) = {}
    /\ \A k \in 1..Len(last.calls) :
         Recoveries(last.calls[k].trace) # {} =>
           k = 1 /\ last.arg = StrV("FAIL")
    /\ (last.arg = StrV("FAIL") /\ Len(pipelines) >= 1) =>
         /\ Recoveries(last.calls[1].trace) = {2}
         /\ Occurrences(last.out.val.s, "[RECOVERED]") = 1
         /\ EndsWith(last.out.val.s, ": [RECOVERED]FAIL")
         /\ StartsWith(last.out.val.s, "Processed ")
         /\ last.calls[1].out = Formatted(pipelines[1].cls, "[RECOVERED]FAIL")
         /\ \A k \in 2..Len(last.calls) :
              last.calls[k].out =
                Formatted(pipelines[k].cls, Str(last.calls[k].arg))
         /\ \A i \in 1..Len(pipelines) :
              pipelines[i].processed_count = last.before[i] + 1

C18_Witness ==
  /\ ReferenceChain
  /\ Len(pipelines) = 3
  /\ last.arg = StrV("FAIL")
  /\ last.before = <<0, 0, 0>>
  /\ Counts(pipelines) = <<1, 1, 1>>
  /\ Len(last.calls) = 3
  /\ last.calls[2].arg = StrV("Processed JSON data: [RECOVERED]FAIL")
  /\ last.out = Return(StrV("Processed JSON data: Processed CSV data: "
                            \o "Processed JSON data: [RECOVERED]FAIL"))

\* ------------------------------------------------------------------ C13
\* the adapter is the same object with the same stages
SameStages(p, q) ==
  /\ q.cls = p.cls
  /\ q.pipeline_id = p.pipeline_id
  /\ q.stages = p.stages

C13_Step ==
  LET n == Len(pipelines)
  IN /\ last'.op = "add_pipeline" =>
          /\ Len(pipelines') = n + 1
          /\ \A i \in 1..n : pipelines'[i] = pipelines[i]
          /\ pipelines'[n + 1] \in Catalogue(pipelines'[n + 1].pipeline_id)
     /\ last'.op = "add_stage" =>
          /\ Len(pipelines') = n
          /\ \A i \in 1..n :
               /\ pipelines'[i].cls = pipelines[i].cls
               /\ pipelines'[i].pipeline_id = pipelines[i].pipeline_id
               /\ i # last'.idx => pipelines'[i].stages = pipelines[i].stages
               /\ i = last'.idx =>
                    /\ Len(pipelines'[i].stages) = Len(pipelines[i].stages) + 1
                    /\ \A k \in 1..Len(pipelines[i].stages) :
                         pipelines'[i].stages[k] = pipelines[i].stages[k]
                    /\ pipelines'[i].stages[Len(pipelines'[i].stages)]
                         \in StageClasses
     /\ last'.op \in {"run_stages", "process", "execute_all", "execute_chain"} =>
          /\ Len(pipelines') = n
          /\ \A i \in 1..n : SameStages(pipelines[i], pipelines'[i])

\* C13: the pipeline sequence and every stage sequence are append-only:
\* add_pipeline and add_stage leave every existing element at its index and
\* put the new one at the end; run_stages, process, execute_all and
\* execute_chain leave both sequences as they were, also when a stage or an
\* adapter raises.
C13_AppendOnly == [][C13_Step]_vars

C13_Witness ==
  /\ last.op = "add_pipeline"
  /\ Len(pipelines) = 3
  /\ last.before = <<1, 0>>
  /\ Counts(pipelines) = <<1, 0, 0>>
  /\ pipelines[1].cls = "JSONAdapter"
  /\ pipelines[2].cls = "FaultyAdapter"
  /\ pipelines[3].cls = "StreamAdapter"
  /\ pipelines[3].stages[2].cls = "FaultyStage"

\* ------------------------------------------------------------------ C14
\* the process calls on adapter i in a call log that returned normally
ReturnedCalls(calls, i) ==
  Cardinality({k \in 1..Len(calls) :
                 calls[k].idx = i /\ ~Raised(calls[k].out)})

C14_Step ==
  /\ last'.op \in {"run_stages", "add_stage", "add_pipeline"} =>
       \A i \in 1..Len(pipelines) :
         pipelines'[i].processed_count = pipelines[i].processed_count
  /\ last'.op = "process" =>
       \A i \in 1..Len(pipelines) :
         i # last'.idx =>
           pipelines'[i].processed_count = pipelines[i].processed_count
  /\ last'.op \in {"process", "execute_all", "execute_chain"} =>
       \A i \in 1..Len(pipelines) :
         pipelines'[i].processed_count =
           pipelines[i].processed_count + ReturnedCalls(last'.calls, i)

\* C14: processed_count is changed only by the adapter's own process:
\* run_stages on its own, add_stage, add_pipeline and the process of another
\* adapter leave it as it was, and in execute_all and execute_chain an
\* adapter's counter grows by exactly its own returned process calls.
C14_OwnCounterOnly == [][C14_Step]_vars

C14_Witness ==
  /\ last.op = "execute_all"
  /\ Len(pipelines) = 3
  /\ last.before = <<1, 0, 0>>
  /\ Counts(pipelines) = <<2, 0, 1>>
  /\ Len(last.calls) = 3
  /\ Raised(last.calls[2].out)
  /\ pipelines[2].cls = "FaultyAdapter"

\* ------------------------------------------------------------------ C16
\* C16: on the manager of main(), execute_all("TEST DATA") from fresh
\* counters leaves every counter at 1; execute_chain("TEST DATA") then
\* returns "Processed STREAM data: Processed CSV data: Processed JSON data:
\* TEST DATA" and leaves every counter at 2; execute_all("FAIL") then
\* returns without raising, the adapters yield "Processed JSON data:
\* [RECOVERED]FAIL", "Processed CSV data: [RECOVERED]FAIL" and "Processed
\* STREAM data: [RECOVERED]FAIL", and every counter is 3.
C16_Demo ==
  /\ (/\ last.op = "execute_all"
      /\ last.arg = StrV("TEST DATA")
      /\ last.before = <<0, 0, 0>>) =>
       /\ ~Raised(last.out)
       /\ Counts(pipelines) = <<1, 1, 1>>
  /\ (/\ last.op = "execute_chain"
      /\ last.arg = StrV("TEST DATA")
      /\ last.before = <<1, 1, 1>>) =>
       /\ last.out = Return(StrV("Processed STREAM data: Processed CSV data: "
                                 \o "Processed JSON data: TEST DATA"))
       /\ Counts(pipelines) = <<2, 2, 2>>
  /\ (/\ last.op = "execute_all"
      /\ last.arg = StrV("FAIL")
      /\ last.before = <<2, 2, 2>>) =>
       /\ last.out = Return(NoneV)
       /\ ReturnedValues(last.calls) =
            <<StrV("Processed JSON data: [RECOVERED]FAIL"),
              StrV("Processed CSV data: [RECOVERED]FAIL"),
              StrV("Processed STREAM data: [RECOVERED]FAIL")>>
       /\ last.results = ReturnedValues(last.calls)
       /\ Counts(pipelines) = <<3, 3, 3>>

C16_Witness ==
  /\ pipelines[1].pipeline_id = "JSON_01"
  /\ pipelines[2].pipeline_id = "CSV_01"
  /\ pipelines[3].pipeline_id = "STREAM_01"
  /\ last.op = "execute_all"
  /\ last.arg = StrV("FAIL")
  /\ last.before = <<2, 2, 2>>
  /\ returned = <<3, 3, 3>>
  /\ streams = <<>>
  /\ run = NoRun
  /\ Counts(pipelines) = <<3, 3, 3>>
  /\ Len(last.results) = 3

\* ------------------------------------------------ ex1: the data streams
ListV(items) == [t |-> "list", items |-> items]

\* sum(data_batch): 0 + item raises TypeError at the first item that is not a
\* number, and so does iterating over something that is not a list
RECURSIVE SumFrom(_, _, _)
SumFrom(items, k, total) ==
  IF k > Len(items) THEN Return(IntV(total))
  ELSE IF items[k].t # "int" THEN Raise("TypeError")
  ELSE SumFrom(items, k + 1, total + items[k].n)

Sum(data_batch) ==
  IF data_batch.t # "list" THEN Raise("TypeError")
  ELSE SumFrom(data_batch.items, 1, 0)

\* f"{p / q:.2f}", exact while no digit after the second is a lone 5
\* (q < 8)
Fixed2(p, q) ==
  LET a == IF p < 0 THEN -p ELSE p
      h == (200 * a + q) \div (2 * q)
  IN (IF p < 0 THEN "-" ELSE "") \o ToString(h \div 100) \o "."
       \o (IF h % 100 < 10 THEN "0" ELSE "") \o ToString(h % 100)

\* DataStream.__init__
NewStream(cls, stream_id) ==
  [cls |-> cls, stream_id |-> stream_id, processed_count |-> 0]

\* average = sum(data_batch) / len(data_batch)
Average(data_batch) ==
  LET total == Sum(data_batch)
  IN IF Raised(total) THEN total
     ELSE IF Len(data_batch.items) = 0 THEN Raise("ZeroDivisionError")
     ELSE Return(StrV(Fixed2(total.val.n, Len(data_batch.items))))

SensorErrors == {"TypeError", "ZeroDivisionError"}

\* faulty variant: the readings are counted before the average is taken
SensorStream_process_batch_CountFirst(self, data_batch) ==
  LET average == Average(data_batch)
      n == IF data_batch.t = "list" THEN Len(data_batch.items) ELSE 0
  IN IF average.raised \in SensorErrors
     THEN [self |-> [self EXCEPT !.processed_count = @ + n],
           out |-> Return(StrV("[" \o self.stream_id
                               \o "] Invalid sensor data"))]
     ELSE IF Raised(average) THEN [self |-> self, out |-> average]
     ELSE [self |-> [self EXCEPT !.processed_count = @ + n],
           out |-> Return(StrV("[" \o self.stream_id \o "] " \o ToString(n)
                               \o " readings processed, avg: "
                               \o average.val.s))]

SensorStream_process_batch(self, data_batch) ==
  LET average == Average(data_batch)
  IN IF average.raised \in SensorErrors
     THEN [self |-> self,
           out |-> Return(StrV("[" \o self.stream_id
                               \o "] Invalid sensor data"))]
     ELSE IF Raised(average) THEN [self |-> self, out |-> average]
     ELSE [self |-> [self EXCEPT !.processed_count =
                                   @ + Len(data_batch.items)],
           out |-> Return(StrV("[" \o self.stream_id \o "] "
                               \o ToString(Len(data_batch.items))
                               \o " readings processed, avg: "
                               \o average.val.s))]

TransactionStream_process_batch(self, data_batch) ==
  LET total == Sum(data_batch)
  IN IF total.raised = "TypeError"
     THEN [self |-> self,
           out |-> Return(StrV("[" \o self.stream_id
                               \o "] Invalid transaction data"))]
     ELSE IF Raised(total) THEN [self |-> self, out |-> total]
     ELSE [self |-> [self EXCEPT !.processed_count =
                                   @ + Len(data_batch.items)],
           out |-> Return(StrV("[" \o self.stream_id \o "] "
                               \o ToString(Len(data_batch.items))
                               \o " operations processed, net flow: "
                               \o Str(total.val)))]

\* sum(1 for event in data_batch if isinstance(event, str) and "error" in event)
ErrorCount(items) ==
  Cardinality({k \in 1..Len(items) :
                 items[k].t = "str" /\ Contains(items[k].s, "error")})

EventStream_process_batch(self, data_batch) ==
  IF data_batch.t # "list"
  THEN [self |-> self,
        out |-> Return(StrV("[" \o self.stream_id \o "] Invalid event data"))]
  ELSE [self |-> [self EXCEPT !.processed_count = @ + Len(data_batch.items)],
        out |-> Return(StrV("[" \o self.stream_id \o "] "
                            \o ToString(Len(data_batch.items))
                            \o " events processed, "
                            \o ToString(ErrorCount(data_batch.items))
                            \o " error(s)"))]

\* stream.process_batch(data_batch), by the class of the stream
process_batch(self, data_batch) ==
  CASE self.cls = "SensorStream" -> SensorStream_process_batch(self, data_batch)
    [] self.cls = "TransactionStream" ->
         TransactionStream_process_batch(self, data_batch)
    [] self.cls = "EventStream" -> EventStream_process_batch(self, data_batch)

\* data_map.get(stream_id, [])
Get(data_map, stream_id) ==
  IF stream_id \in DOMAIN data_map THEN data_map[stream_id] ELSE ListV(<<>>)

\* the loop of StreamProcessor.process_streams from the i-th stream on; an
\* exception out of process_batch is printed and the loop goes on
RECURSIVE ProcessStreamsFrom(_, _, _, _)
ProcessStreamsFrom(ss, i, data_map, calls) ==
  IF i > Len(ss)
  THEN [streams |-> ss, out |-> Return(NoneV), calls |-> calls]
  ELSE LET batch == Get(data_map, ss[i].stream_id)
           r == process_batch(ss[i], batch)
           printed == IF Raised(r.out)
                      THEN "Processing error in " \o ss[i].stream_id
                      ELSE r.out.val.s
       IN ProcessStreamsFrom([ss EXCEPT ![i] = r.self], i + 1, data_map,
                             Append(calls, [idx |-> i, arg |-> batch,
                                            out |-> r.out,
                                            printed |-> printed]))

process_streams(ss, data_map) == ProcessStreamsFrom(ss, 1, data_map, <<>>)

\* the streams of main()
MainStreams ==
  <<NewStream("SensorStream", "SENSOR_001"),
    NewStream("TransactionStream", "TRANS_001"),
    NewStream("EventStream", "EVENT_001")>>

StreamIds == {MainStreams[i].stream_id : i \in 1..Len(MainStreams)}

\* the batches handed to a stream: none, numbers, texts, and no list at all
Batches ==
  {ListV(<<>>),
   ListV(<<IntV(100), IntV(150), IntV(-75)>>),
   ListV(<<StrV("login"), StrV("error"), StrV("logout")>>),
   NoneV}

\* the data maps: any of the stream ids may be missing
DataMaps == UNION {[D -> Batches] : D \in SUBSET StreamIds}

StreamCounts(ss) == [i \in 1..Len(ss) |-> ss[i].processed_count]

StreamRecord(op, idx, arg, out, calls) ==
  [op |-> op, idx |-> idx, arg |-> arg, out |-> out, calls |-> calls,
   trace |-> <<>>, results |-> <<>>, before |-> StreamCounts(streams)]

\* streams[i].process_batch(data_batch), called on its own
ProcessBatch ==
  \E i \in 1..Len(streams), data_batch \in Batches :
    \E r \in {process_batch(streams[i], data_batch)} :
      /\ r.self.processed_count <= MaxProcessed
      /\ streams' = [streams EXCEPT ![i] = r.self]
      /\ last' = StreamRecord("process_batch", i, data_batch, r.out,
                              <<[idx |-> i, arg |-> data_batch,
                                 out |-> r.out]>>)
      /\ UNCHANGED <<pipelines, returned, run>>

\* processor.process_streams(data_map)
ProcessStreams ==
  \E data_map \in DataMaps :
    \E r \in {process_streams(streams, data_map)} :
      /\ \A i \in 1..Len(streams) :
           r.streams[i].processed_count <= MaxProcessed
      /\ streams' = r.streams
      /\ last' = StreamRecord("process_streams", 0, data_map, r.out, r.calls)
      /\ UNCHANGED <<pipelines, returned, run>>

InitStreams ==
  /\ pipelines = <<>>
  /\ returned = <<>>
  /\ run = NoRun
  /\ streams = MainStreams
  /\ last = [NoCall EXCEPT !.before = StreamCounts(MainStreams)]

NextStreams ==
  \/ ProcessBatch
  \/ ProcessStreams

SpecStreams == InitStreams /\ [][NextStreams]_vars

\* ------------------------------------------------------------------ C20
\* a list of numbers
Numbers(data_batch) ==
  /\ data_batch.t = "list"
  /\ \A k \in 1..Len(data_batch.items) : data_batch.items[k].t = "int"

\* the batches a stream class accepts: sensor readings are numbers and at
\* least one, transactions are numbers, events are any list
Accepts(cls, data_batch) ==
  CASE cls = "SensorStream" ->
         Numbers(data_batch) /\ Len(data_batch.items) > 0
    [] cls = "TransactionStream" -> Numbers(data_batch)
    [] cls = "EventStream" -> data_batch.t = "list"

Kind(cls) ==
  CASE cls = "SensorStream" -> "sensor"
    [] cls = "TransactionStream" -> "transaction"
    [] cls = "EventStream" -> "event"

Invalid(s) ==
  Return(StrV("[" \o s.stream_id \o "] Invalid " \o Kind(s.cls) \o " data"))

\* C20: process_batch on a batch the stream accepts adds the number of items
\* of the batch to the processed_count of that stream; on a batch it rejects
\* (for a SensorStream also the empty batch) it returns the "Invalid ...
\* data" message and leaves processed_count as it was. process_streams calls
\* process_batch on every stream once, in list order, with the batch of the
\* data map or the empty batch for a stream id the map does not have, and no
\* call changes the count of another stream.
C20_Streams ==
  last.op \in {"process_batch", "process_streams"} =>
    /\ \A k \in 1..Len(last.calls) :
         LET c == last.calls[k]
             s == streams[c.idx]
         IN /\ Accepts(s.cls, c.arg) =>
                 /\ ~Raised(c.out)
                 /\ c.out # Invalid(s)
                 /\ s.processed_count =
                      last.before[c.idx] + Len(c.arg.items)
            /\ ~Accepts(s.cls, c.arg) =>
                 /\ c.out = Invalid(s)
                 /\ s.processed_count = last.before[c.idx]
            /\ (s.cls = "SensorStream" /\ c.arg = ListV(<<>>)) =>
                 c.out = Return(StrV("[SENSOR_001] Invalid sensor data"))
    /\ \A i \in 1..Len(streams) :
         /\ streams[i].cls = MainStreams[i].cls
         /\ streams[i].stream_id = MainStreams[i].stream_id
         /\ (\A k \in 1..Len(last.calls) : last.calls[k].idx # i) =>
              streams[i].processed_count = last.before[i]
    /\ last.op = "process_batch" =>
         /\ Len(last.calls) = 1
         /\ last.calls[1].idx = last.idx
         /\ last.calls[1].arg = last.arg
    /\ last.op = "process_streams" =>
         /\ last.out = Return(NoneV)
         /\ Len(last.calls) = Len(streams)
         /\ \A k \in 1..Len(last.calls) :
              /\ last.calls[k].idx = k
              /\ last.calls[k].arg =
                   IF streams[k].stream_id \in DOMAIN last.arg
                   THEN last.arg[streams[k].stream_id]
                   ELSE ListV(<<>>)

C20_Witness ==
  /\ last.op = "process_streams"
  /\ DOMAIN last.arg = {"TRANS_001", "EVENT_001"}
  /\ last.before = <<3, 0, 3>>
  /\ StreamCounts(streams) = <<3, 3, 6>>
  /\ last.calls[1].arg = ListV(<<>>)
  /\ last.calls[1].out = Return(StrV("[SENSOR_001] Invalid sensor data"))
  /\ last.calls[2].out =
       Return(StrV("[TRANS_001] 3 operations processed, net flow: 175"))
  /\ last.calls[3].out =
       Return(StrV("[EVENT_001] 3 events processed, 1 error(s)"))

\* --------------------------------------------- the calls, step by step
\* `run` is the call in progress: op and arg are the call made from outside
\* and top its status; idx is the pipeline whose process (or run_stages) is
\* running, state and stage say where its run is, current is current_data
\* of run_stages, data is what the pipeline was invoked with; invoked counts
\* the stage invocations of this run and visited lists the pipelines whose
\* process was called.
Settled == run.top # "active"

Called(op, data, idx) ==
  [NoRun EXCEPT !.op = op, !.arg = data, !.top = "active", !.idx = idx,
                !.data = data]

\* pipelines[i].run_stages(data) is called
StartRunStages ==
  \E i \in 1..Len(pipelines), data \in Data :
    /\ Settled
    /\ run' = Called("run_stages", data, i)
    /\ UNCHANGED <<pipelines, last, returned, streams>>

\* pipelines[i].process(data) is called
StartProcess ==
  \E i \in 1..Len(pipelines), data \in Data :
    /\ Settled
    /\ CanCount(i)
    /\ run' = Called("process", data, i)
    /\ UNCHANGED <<pipelines, last, returned, streams>>

\* manager.execute_all(data) is called: the loop starts at the first pipeline
StartExecuteAll ==
  /\ Settled
  /\ \A i \in 1..Len(pipelines) : CanCount(i)
  /\ \E data \in Data :
       run' = IF Len(pipelines) = 0
              THEN [NoRun EXCEPT !.op = "execute_all", !.arg = data,
                                 !.top = "returned"]
              ELSE Called("execute_all", data, 1)
  /\ UNCHANGED <<pipelines, last, returned, streams>>

\* manager.execute_chain(data) is called
StartExecuteChain ==
  /\ Settled
  /\ \A i \in 1..Len(pipelines) : CanCount(i)
  /\ \E data \in Data :
       run' = IF Len(pipelines) = 0
              THEN [NoRun EXCEPT !.op = "execute_chain", !.arg = data,
                                 !.top = "returned", !.out = Return(data)]
              ELSE Called("execute_chain", data, 1)
  /\ UNCHANGED <<pipelines, last, returned, streams>>

\* the stage loop of run_stages is over: run_stages returns value; in
\* process the count is incremented and the result is formatted
Completes(r, value) ==
  /\ run' = [r EXCEPT
               !.state = "Completed",
               !.current = value,
               !.result = IF r.op = "run_stages" THEN value
                          ELSE StrV("Processed "
                                    \o Label(pipelines[r.idx].cls)
                                    \o " data: " \o Str(value))]
  /\ pipelines' = IF r.op = "run_stages" THEN pipelines
                  ELSE [pipelines EXCEPT ![r.idx].processed_count = @ + 1]

\* the pipeline run.idx is entered with run.data
Invoke ==
  /\ run.top = "active"
  /\ run.state = "Idle"
  /\ LET p == pipelines[run.idx]
         r == IF run.op = "run_stages" THEN run
              ELSE [run EXCEPT !.visited = Append(@, run.idx)]
     IN IF run.op # "run_stages" /\ p.cls = "FaultyAdapter"
        THEN /\ run' = [r EXCEPT !.state = "Failed", !.err = p.err]
             /\ UNCHANGED pipelines
        ELSE IF Len(p.stages) = 0
        THEN Completes(r, run.data)
        ELSE /\ run' = [r EXCEPT !.state = "Running", !.stage = 1,
                                 !.current = run.data]
             /\ UNCHANGED pipelines
  /\ UNCHANGED <<last, returned, streams>>

\* faulty variant: an error of a stage ends the run whatever its class
StageStep_FailFast ==
  /\ run.top = "active"
  /\ run.state = "Running"
  /\ LET p == pipelines[run.idx]
         o == StageProcess(p.stages[run.stage], run.current)
         r == [run EXCEPT !.invoked = @ + 1]
     IN IF Raised(o)
        THEN /\ run' = [r EXCEPT !.state = "Failed", !.err = o.raised]
             /\ UNCHANGED pipelines
        ELSE IF run.stage < Len(p.stages)
        THEN /\ run' = [r EXCEPT !.stage = @ + 1, !.current = o.val]
             /\ UNCHANGED pipelines
        ELSE Completes(r, o.val)
  /\ UNCHANGED <<last, returned, streams>>

\* the stage run.stage is invoked with current_data
StageStep ==
  /\ run.top = "active"
  /\ run.state = "Running"
  /\ LET p == pipelines[run.idx]
         o == StageProcess(p.stages[run.stage], run.current)
         r == [run EXCEPT !.invoked = @ + 1]
     IN IF o.raised \in Recoverable
        THEN /\ run' = [r EXCEPT !.state = "Recovering", !.err = o.raised]
             /\ UNCHANGED pipelines
        ELSE IF Raised(o)
        THEN /\ run' = [r EXCEPT !.state = "Failed", !.err = o.raised]
             /\ UNCHANGED pipelines
        ELSE IF run.stage < Len(p.stages)
        THEN /\ run' = [r EXCEPT !.stage = @ + 1, !.current = o.val]
             /\ UNCHANGED pipelines
        ELSE Completes(r, o.val)
  /\ UNCHANGED <<last, returned, streams>>

\* the except branch of run_stages: current_data is marked, the loop goes on
Recover ==
  /\ run.top = "active"
  /\ run.state = "Recovering"
  /\ LET p == pipelines[run.idx]
         r == [run EXCEPT !.err = "none"]
     IN IF run.stage < Len(p.stages)
        THEN /\ run' = [r EXCEPT !.state = "Running", !.stage = @ + 1,
                                 !.current = Recovered(run.current)]
             /\ UNCHANGED pipelines
        ELSE Completes(r, Recovered(run.current))
  /\ UNCHANGED <<last, returned, streams>>

\* the manager loop goes to the next pipeline, which is invoked with data
NextPipeline(r, data) ==
  [r EXCEPT !.idx = @ + 1, !.state = "Idle", !.stage = 0, !.data = data,
            !.current = NoneV, !.err = "none", !.invoked = 0,
            !.result = NoneV]

Returns(r, out) == [r EXCEPT !.top = "returned", !.out = out]

Raises(r) == [r EXCEPT !.top = "raised", !.out = Raise(r.err)]

\* faulty variant: execute_all calls a pipeline again after catching its error
Leave_Retry ==
  /\ run.top = "active"
  /\ run.state \in {"Completed", "Failed"}
  /\ run' =
       CASE run.op \in {"run_stages", "process"} ->
              IF run.state = "Failed" THEN Raises(run)
              ELSE Returns(run, Return(run.result))
         [] run.op = "execute_all" ->
              IF run.state = "Failed" /\ run.err \notin Recoverable
              THEN Raises(run)
              ELSE IF run.state = "Failed"
              THEN [NextPipeline(run, run.arg) EXCEPT !.idx = run.idx]
              ELSE IF run.idx < Len(pipelines)
              THEN NextPipeline(run, run.arg)
              ELSE Returns(run, Return(NoneV))
         [] run.op = "execute_chain" ->
              IF run.state = "Failed" THEN Raises(run)
              ELSE IF run.idx < Len(pipelines)
              THEN NextPipeline(run, run.result)
              ELSE Returns(run, Return(run.result))
  /\ UNCHANGED <<pipelines, last, returned, streams>>

\* control leaves the pipeline: the call made from outside returns or raises,
\* or the loop of execute_all / execute_chain goes on
Leave ==
  /\ run.top = "active"
  /\ run.state \in {"Completed", "Failed"}
  /\ run' =
       CASE run.op \in {"run_stages", "process"} ->
              IF run.state = "Failed" THEN Raises(run)
              ELSE Returns(run, Return(run.result))
         [] run.op = "execute_all" ->
              IF run.state = "Failed" /\ run.err \notin Recoverable
              THEN Raises(run)
              ELSE IF run.idx < Len(pipelines)
              THEN NextPipeline(run, run.arg)
              ELSE Returns(run, Return(NoneV))
         [] run.op = "execute_chain" ->
              IF run.state = "Failed" THEN Raises(run)
              ELSE IF run.idx < Len(pipelines)
              THEN NextPipeline(run, run.result)
              ELSE Returns(run, Return(run.result))
  /\ UNCHANGED <<pipelines, last, returned, streams>>

\* one pipeline: it is built, then run step by step
NextRun ==
  \/ run = NoRun /\ AddStage
  \/ StartRunStages
  \/ StartProcess
  \/ Invoke
  \/ StageStep
  \/ Recover
  \/ Leave

SpecRun == InitPipe /\ [][NextRun]_vars

\* ------------------------------------------------------------------ C12
\* one step of the pipeline under run
C12_Step ==
  LET p == pipelines[1]
      n == Len(p.stages)
      from == run.state
      to == run'.state
      count == p.processed_count
      count2 == pipelines'[1].processed_count
  IN /\ (from = "Idle" /\ run.top = "active") =>
          \/ to = "Running" /\ run'.stage = 1 /\ n >= 1
          \/ to = "Completed" /\ n = 0
     /\ from = "Running" =>
          \/ to = "Running" /\ run'.stage = run.stage + 1 /\ run'.stage <= n
          \/ /\ to = "Recovering"
             /\ run'.stage = run.stage
             /\ run'.err \in Recoverable
          \/ to = "Completed" /\ run.stage = n
          \/ /\ to = "Failed"
             /\ run'.err \notin Recoverable \cup {"none"}
             /\ run'.err = StageProcess(p.stages[run.stage], run.current).raised
     /\ from = "Recovering" =>
          /\ run'.current = Marked(run.current)
          /\ \/ to = "Running" /\ run'.stage = run.stage + 1 /\ run'.stage <= n
             \/ to = "Completed" /\ run.stage = n
     /\ from \in {"Completed", "Failed"} =>
          \/ to = from /\ run.top = "active" /\ run'.top # "active"
          \/ to = "Idle" /\ run.top # "active" /\ run'.top = "active"
     /\ (to = "Completed" /\ from # "Completed") =>
          /\ run'.top = "active"
          /\ run'.invoked = n
          /\ count2 = IF run.op = "process" THEN count + 1 ELSE count
     /\ count2 # count => to = "Completed" /\ from # "Completed"
     /\ (run'.top = "returned" /\ run.top = "active") =>
          from = "Completed" /\ count2 = count
     /\ (run'.top = "raised" /\ run.top = "active") => from = "Failed"
     /\ pipelines'[1].stages # p.stages => run = NoRun /\ run' = NoRun

\* C12: a pipeline run goes Idle -> Running(stage 1) -> ... -> Completed or
\* Failed: the stages are entered in insertion order, each once; a
\* recoverable error at stage i leads to Recovering and from there to
\* Running(stage i+1), or to Completed after the last stage, never to
\* Failed; Failed is entered only from a stage that raises a non-recoverable
\* error; the counter of the adapter is incremented on entering Completed,
\* before process returns, and at no other step.
C12_RunStates == [][C12_Step]_vars

C12_Witness ==
  /\ run.op = "process"
  /\ run.top = "returned"
  /\ run.state = "Completed"
  /\ run.arg = StrV("FAIL")
  /\ pipelines[1].cls = "JSONAdapter"
  /\ pipelines[1].stages = <<[cls |-> "TransformStage"],
                             [cls |-> "FaultyStage", err |-> "TypeError"],
                             [cls |-> "OutputStage"]>>
  /\ run.invoked = 3
  /\ pipelines[1].processed_count = 2
  /\ run.out = Return(StrV("Processed JSON data: [RECOVERED][RECOVERED]FAIL"))

\* ------------------------------------------- managers, step by step
\* the managers whose calls are followed step by step: the empty one, the
\* one of main(), and two with members that fail
FailingFirst ==
  <<MainPipeline("JSONAdapter", "JSON_01"),
    NewAdapter([cls |-> "FaultyAdapter", err |-> "TypeError"], "BAD_01"),
    Built([cls |-> "StreamAdapter"], "STREAM_01", [cls |-> "InputStage"],
          [cls |-> "FaultyStage", err |-> "RuntimeError"],
          [cls |-> "OutputStage"]),
    MainPipeline("CSVAdapter", "CSV_01")>>

FailingSoftly ==
  <<Built([cls |-> "CSVAdapter"], "CSV_01", [cls |-> "TransformStage"],
          [cls |-> "FaultyStage", err |-> "TypeError"],
          [cls |-> "OutputStage"]),
    NewAdapter([cls |-> "FaultyAdapter", err |-> "ValueError"], "BAD_01"),
    NewAdapter([cls |-> "JSONAdapter"], "JSON_01")>>

Managers == {<<>>, MainPipelines, FailingFirst, FailingSoftly}

InitExec ==
  /\ pipelines \in Managers
  /\ last = [NoCall EXCEPT !.before = Counts(pipelines)]
  /\ returned = Counts(pipelines)
  /\ streams = <<>>
  /\ run = NoRun

\* a step of the call in progress
Step ==
  \/ Invoke
  \/ StageStep
  \/ Recover
  \/ Leave

NextExec ==
  \/ StartRunStages
  \/ StartProcess
  \/ StartExecuteAll
  \/ StartExecuteChain
  \/ Invoke
  \/ StageStep
  \/ Recover
  \/ Leave

\* the calls are synchronous: a call in progress goes on
SpecExec == InitExec /\ [][NextExec]_vars /\ WF_vars(Step)

\* ------------------------------------------------------------------ C15
\* no pipeline is in visited twice, and they are in list order
InOrder(visited) ==
  \A j, k \in 1..Len(visited) : j < k => visited[j] < visited[k]

\* C15: every run_stages, process, execute_all and execute_chain call
\* finishes, by returning or by raising; every pipeline run that is entered
\* completes or fails; a completed pipeline run has made exactly len(stages)
\* stage invocations and an execute_all or execute_chain that returned has
\* made exactly len(pipelines) process calls, one per pipeline in list
\* order; no stage is invoked and no pipeline is called a second time.
C15_Terminates ==
  /\ [](run.top = "active" => <>(run.top \in {"returned", "raised"}))
  /\ [](run.state \in {"Running", "Recovering"} =>
          <>(run.state \in {"Completed", "Failed"}))
  /\ [](run.idx # 0 =>
          /\ run.invoked <= Len(pipelines[run.idx].stages)
          /\ run.state \in {"Running", "Recovering"} =>
               run.invoked = IF run.state = "Running" THEN run.stage - 1
                             ELSE run.stage
          /\ run.state = "Completed" =>
               run.invoked = Len(pipelines[run.idx].stages))
  /\ [](InOrder(run.visited))
  /\ []((run.top = "returned" /\ run.op \in {"execute_all", "execute_chain"})
          => run.visited = [k \in 1..Len(pipelines) |-> k])
  /\ []((run.top = "returned" /\ run.op = "process") =>
          run.visited = <<run.idx>>)

C15_Witness ==
  /\ pipelines = [k \in 1..3 |->
                    Copy(FailingSoftly[k], IF k = 2 THEN 0 ELSE 1)]
  /\ run.op = "execute_all"
  /\ run.arg = StrV("FAIL")
  /\ run.top = "returned"
  /\ run.visited = <<1, 2, 3>>
  /\ run.idx = 3
  /\ run.state = "Completed"
  /\ run.invoked = 0
  /\ run.result = StrV("Processed JSON data: FAIL")

====
